---- MODULE Spec2Model ----
(***************************************************************************)
(* The Data API quickstart notebook (search_and_download_quickstart.ipynb) *)
(* as a state machine.  The state is the notebook kernel's globals, the    *)
(* remote service's view of the one asset the notebook asks for, and a log *)
(* of the HTTP requests the cells issue.  One action per code cell; a cell *)
(* stops at its first failing statement and keeps what it assigned before. *)
(* The notebook is read top to bottom: the reader runs the cell after the  *)
(* last one run, runs the last one again, or, when it raised, steps back   *)
(* one cell.  A cell that raised does not stop the cells after it, and a   *)
(* name that was never assigned raises NameError.                          *)
(***************************************************************************)
EXTENDS Naturals, Sequences, FiniteSets, TLC

VARIABLES
    envKey,                   \* os.environ's PL_API_KEY ("" when unset or empty)
    cellChildren,             \* the filters the "Create Filters" cell combines
    API_KEY,                  \* kernel globals, named as in the notebook
    geojson_geometry,
    child_filters,            \* geometry_filter, date_range_filter, cloud_cover_filter
    combined_filter,
    search_request,
    geojson,
    image_ids,
    id0,
    result,
    self_link,
    activation_link,
    activate_result,
    activation_status_result,
    download_link,
    out,                      \* the last cell run and the exception it ended with
    srvHasAsset,              \* remote service: the item has the named asset
    srvStatus,                \* remote service: the asset's activation status
    reqKeys,                  \* credentials carried by the requests issued so far
    searchBody,               \* JSON body of the last quick-search POST
    nActivate,                \* activation requests issued so far
    pollHist,                 \* what each status poll observed, in order
    waits,                    \* polls issued at least one interval after the previous one
    srvPair,                  \* remote service: the status of each of two assets
    runPc,                    \* two runs in one kernel, one per asset: where each is
    runHist,                  \* the asset each poll of a run was sent to, in order
    runResult                 \* what each run's download_link cell ended with

vars == <<envKey, cellChildren, API_KEY, geojson_geometry, child_filters, combined_filter,
          search_request, geojson, image_ids, id0, result, self_link,
          activation_link, activate_result, activation_status_result,
          download_link, out, srvHasAsset, srvStatus, reqKeys, searchBody,
          nActivate, pollHist, waits, srvPair, runPc, runHist, runResult>>

kernelSetup == <<API_KEY, geojson_geometry, child_filters, combined_filter>>
kernelSearch == <<search_request, geojson, image_ids, id0>>
kernelAsset == <<result, self_link, activation_link, activate_result,
                 activation_status_result, download_link>>
remote == <<srvHasAsset, srvStatus>>
pollLog == <<nActivate, pollHist, waits>>
pairRuns == <<srvPair, runPc, runHist, runResult>>

-----------------------------------------------------------------------------
(* Bounds of the model *)

MaxAttempts == 2      \* the attempt bound the polling claims speak of
MaxPolls == 3         \* polls explored; the notebook itself sets no bound
MaxActivations == 2   \* activation requests explored
MaxChildren == 2      \* children of a conjunction (FilterSpec)
MaxNested == 1        \* children of a nested conjunction (FilterSpec)

-----------------------------------------------------------------------------
(* Values *)

Undef == "undef"
DefaultKey == "PLAKcaa4ce6cd0464a058d71353bf2bca50b"
UserKey == "USER_KEY"
Assets == {"ortho_analytic_4b", "ortho_visual"}
Locations == {"loc1", "loc2"}
HttpOutcomes == {"ok", "unauthorized", "notfound", "neterr"}

NoFilter == [type |-> Undef]
NoRequest == [def |-> FALSE]
NoJson == [kind |-> Undef, features |-> <<>>]
NoIds == [def |-> FALSE, ids |-> <<>>]
NoResult == [kind |-> Undef, has |-> FALSE, status |-> ""]
NoStatusResult == [kind |-> Undef, status |-> "", location |-> ""]
ErrorBody == [kind |-> "error", status |-> "", location |-> ""]

Outcome(cell, exc) == [cell |-> cell, exc |-> exc]

\* The code cells, top to bottom.
Cells == <<"key", "geometry", "filters", "search", "ids", "assets", "status",
           "activate", "poll", "download">>

CellIndex(cell) == IF cell = "none" THEN 0 ELSE CHOOSE i \in DOMAIN Cells : Cells[i] = cell

-----------------------------------------------------------------------------
(* Search filters: the dict literals of the "Create Filters" cell *)

GeometryFilter(geom) ==
    [type |-> "GeometryFilter", field_name |-> "geometry", config |-> geom]

DateRangeFilter ==
    [type |-> "DateRangeFilter", field_name |-> "acquired",
     config |-> "2016-08-31/2016-09-01"]

RangeFilter ==
    [type |-> "RangeFilter", field_name |-> "cloud_cover", config |-> "lte:0.5"]

AndFilter_Reversed(children) ==
    [type |-> "AndFilter",
     config |-> [i \in 1..Len(children) |-> children[Len(children) + 1 - i]]]

AndFilter(children) == [type |-> "AndFilter", config |-> children]

\* The three children the notebook combines, in the order it lists them.
NotebookChildren == <<GeometryFilter("Polygon"), DateRangeFilter, RangeFilter>>

\* json.dumps, as requests applies it to json=search_request: objects keep
\* their keys in insertion order, lists keep their elements in order.
RECURSIVE SerFilter(_)
RECURSIVE SerList(_)
SerFilter(f) ==
    IF f.type = "AndFilter"
    THEN <<"{", "type", f.type, "config", "[">> \o SerList(f.config) \o <<"]", "}">>
    ELSE <<"{", "type", f.type, "field_name", f.field_name, "config", f.config, "}">>

SerList(fs) == IF fs = <<>> THEN <<>> ELSE SerFilter(Head(fs)) \o SerList(Tail(fs))

SerRequest(req) ==
    <<"{", "item_types", "[">> \o req.item_types \o <<"]", "filter">>
        \o SerFilter(req.filter) \o <<"}">>

-----------------------------------------------------------------------------
(* The state of a fresh kernel, before any cell has run *)

\* The reader may run the cell last run, the one after it, or, when the last
\* cell raised, the one before it.
CanRun(cell) ==
    LET last == CellIndex(out.cell)
        i == CellIndex(cell)
    IN  \/ i = last
        \/ i = last + 1
        \/ out.exc # "none" /\ i + 1 = last

InitWith(children) ==
    /\ envKey \in {"", UserKey}
    /\ cellChildren = children
    /\ API_KEY = Undef
    /\ geojson_geometry = Undef
    /\ child_filters = <<>>
    /\ combined_filter = NoFilter
    /\ search_request = NoRequest
    /\ geojson = NoJson
    /\ image_ids = NoIds
    /\ id0 = Undef
    /\ result = NoResult
    /\ self_link = Undef
    /\ activation_link = Undef
    /\ activate_result = Undef
    /\ activation_status_result = NoStatusResult
    /\ download_link = Undef
    /\ out = Outcome("none", "none")
    /\ srvHasAsset \in BOOLEAN
    /\ srvStatus = "inactive"
    /\ reqKeys = {}
    /\ searchBody = <<>>
    /\ nActivate = 0
    /\ pollHist = <<>>
    /\ waits = 0
    /\ srvPair = [a \in Assets |-> "inactive"]
    /\ runPc = [a \in Assets |-> "start"]
    /\ runHist = [a \in Assets |-> <<>>]
    /\ runResult = [a \in Assets |-> Undef]

Init == InitWith(NotebookChildren)

-----------------------------------------------------------------------------
(* "Set Up API Key": the environment variable, else the literal in the cell *)

KeyCell ==
    /\ CanRun("key")
    /\ API_KEY' = IF envKey # "" THEN envKey ELSE DefaultKey
    /\ out' = Outcome("key", "none")
    /\ UNCHANGED <<envKey, cellChildren, pairRuns, geojson_geometry, child_filters, combined_filter,
                   kernelSearch, kernelAsset, remote, reqKeys, searchBody, pollLog>>

(* "Define an Area of Interest" *)

GeometryCell ==
    /\ CanRun("geometry")
    /\ geojson_geometry' = "Polygon"
    /\ out' = Outcome("geometry", "none")
    /\ UNCHANGED <<envKey, cellChildren, pairRuns, API_KEY, child_filters, combined_filter,
                   kernelSearch, kernelAsset, remote, reqKeys, searchBody, pollLog>>

(* "Create Filters": the child filters, then their conjunction.  The       *)
(* geometry filter reads geojson_geometry, the cell's first statement.     *)

FilterCell ==
    /\ CanRun("filters")
    /\ IF geojson_geometry = Undef
       THEN /\ out' = Outcome("filters", "NameError")
            /\ UNCHANGED <<child_filters, combined_filter>>
       ELSE /\ child_filters' = cellChildren
            /\ combined_filter' = AndFilter(child_filters')
            /\ out' = Outcome("filters", "none")
    /\ UNCHANGED <<envKey, cellChildren, pairRuns, API_KEY, geojson_geometry,
                   kernelSearch, kernelAsset, remote, reqKeys, searchBody, pollLog>>

(* "Searching": build search_request, POST it, keep the JSON answer and    *)
(* print its first feature.  http is how the request ends, found whether   *)
(* the service finds an item that matches.                                 *)

SearchCell(http, found) ==
    /\ CanRun("search")
    /\ IF combined_filter.type = Undef
       THEN /\ out' = Outcome("search", "NameError")
            /\ UNCHANGED <<search_request, geojson, reqKeys, searchBody>>
       ELSE LET req == [def |-> TRUE, item_types |-> <<"PSScene">>,
                        filter |-> combined_filter]
            IN  /\ search_request' = req
                /\ IF API_KEY = Undef
                   THEN /\ out' = Outcome("search", "NameError")
                        /\ UNCHANGED <<geojson, reqKeys, searchBody>>
                   ELSE /\ reqKeys' = reqKeys \cup {API_KEY}
                        /\ searchBody' = SerRequest(req)
                        /\ CASE http = "neterr" ->
                                  /\ out' = Outcome("search", "ConnectionError")
                                  /\ UNCHANGED geojson
                             [] http = "ok" ->
                                  /\ geojson' = [kind |-> "ok",
                                                 features |-> IF found THEN <<"item0">>
                                                              ELSE <<>>]
                                  /\ out' = Outcome("search",
                                         IF found THEN "none" ELSE "IndexError")
                             [] OTHER ->
                                  /\ geojson' = [kind |-> "error", features |-> <<>>]
                                  /\ out' = Outcome("search", "IndexError")
    /\ UNCHANGED <<envKey, cellChildren, pairRuns, kernelSetup, image_ids, id0, kernelAsset, remote, pollLog>>

(* "extract image IDs only" *)

IdsCell ==
    /\ CanRun("ids")
    /\ CASE geojson.kind = Undef ->
              /\ out' = Outcome("ids", "NameError")
              /\ UNCHANGED image_ids
         [] geojson.kind = "error" ->
              /\ out' = Outcome("ids", "KeyError")
              /\ UNCHANGED image_ids
         [] OTHER ->
              /\ image_ids' = [def |-> TRUE, ids |-> geojson.features]
              /\ out' = Outcome("ids", "none")
    /\ UNCHANGED <<envKey, cellChildren, pairRuns, kernelSetup, search_request, geojson, id0,
                   kernelAsset, remote, reqKeys, searchBody, pollLog>>

\* What GET .../items/{id}/assets answers: the mapping of asset names to
\* descriptors, here the one named asset or none.
AssetsResponse ==
    [kind |-> "assets", has |-> srvHasAsset,
     status |-> IF srvHasAsset THEN srvStatus ELSE ""]

(* "grab the first image ID" and GET its assets *)

AssetsCell(http) ==
    /\ CanRun("assets")
    /\ CASE ~image_ids.def ->
              /\ out' = Outcome("assets", "NameError")
              /\ UNCHANGED <<id0, result, reqKeys>>
         [] image_ids.ids = <<>> ->
              /\ out' = Outcome("assets", "IndexError")
              /\ UNCHANGED <<id0, result, reqKeys>>
         [] OTHER ->
              /\ id0' = image_ids.ids[1]
              /\ reqKeys' = reqKeys \cup {API_KEY}
              /\ CASE http = "neterr" ->
                        /\ out' = Outcome("assets", "ConnectionError")
                        /\ UNCHANGED result
                   [] http = "ok" ->
                        /\ result' = AssetsResponse
                        /\ out' = Outcome("assets", "none")
                   [] OTHER ->
                        /\ result' = [kind |-> "error", has |-> FALSE, status |-> ""]
                        /\ out' = Outcome("assets", "none")
    /\ UNCHANGED <<envKey, cellChildren, pairRuns, kernelSetup, search_request, geojson, image_ids,
                   self_link, activation_link, activate_result,
                   activation_status_result, download_link, remote,
                   searchBody, pollLog>>

-----------------------------------------------------------------------------
(* The remote service, as the notebook's text describes it: an asset is    *)
(* "inactive" until activation is requested, then activating, and its      *)
(* status answer carries the temporary download link once it is "active".  *)

\* GET <activation-link>: starts the activation of an inactive asset.
ServerActivate(st) == IF st = "inactive" THEN "activating" ELSE st

\* GET <self-link>: the status and, on an active asset, a location.
StatusResponse(loc) ==
    [kind |-> "ok", status |-> srvStatus,
     location |-> IF srvStatus = "active" THEN loc ELSE ""]

\* The service finishes an activation, one way or the other.
SrvProgress(to) ==
    /\ srvStatus = "activating"
    /\ srvStatus' = to
    /\ UNCHANGED <<envKey, cellChildren, pairRuns, kernelSetup, kernelSearch, kernelAsset, out,
                   srvHasAsset, reqKeys, searchBody, pollLog>>

-----------------------------------------------------------------------------
(* "check the status of the asset": print result.json()[name]['status'] *)

StatusCell ==
    /\ CanRun("status")
    /\ out' = Outcome("status",
                 CASE result.kind = Undef -> "NameError"
                   [] result.kind = "error" \/ ~result.has -> "KeyError"
                   [] OTHER -> "none")
    /\ UNCHANGED <<envKey, cellChildren, pairRuns, kernelSetup, kernelSearch, kernelAsset, remote,
                   reqKeys, searchBody, pollLog>>

(* "activate that asset": parse the links, then GET the activation link.   *)
(* The answer is stored and not looked at.                                 *)

ActivateCell_ParsesAnswer(http) ==
    /\ CanRun("activate")
    /\ nActivate < MaxActivations
    /\ CASE result.kind = Undef ->
              /\ out' = Outcome("activate", "NameError")
              /\ UNCHANGED <<self_link, activation_link, activate_result,
                             srvStatus, reqKeys, nActivate>>
         [] result.kind = "error" \/ ~result.has ->
              /\ out' = Outcome("activate", "KeyError")
              /\ UNCHANGED <<self_link, activation_link, activate_result,
                             srvStatus, reqKeys, nActivate>>
         [] OTHER ->
              /\ self_link' = "SELF"
              /\ activation_link' = "ACTIVATE"
              /\ reqKeys' = reqKeys \cup {API_KEY}
              /\ nActivate' = nActivate + 1
              /\ IF http = "neterr"
                 THEN /\ out' = Outcome("activate", "ConnectionError")
                      /\ UNCHANGED <<activate_result, srvStatus>>
                 ELSE /\ activate_result' = "Response"
                      /\ srvStatus' = IF http = "ok" THEN ServerActivate(srvStatus)
                                      ELSE srvStatus
                      /\ out' = Outcome("activate", "ValueError")
    /\ UNCHANGED <<envKey, cellChildren, pairRuns, kernelSetup, kernelSearch, result,
                   activation_status_result, download_link, srvHasAsset,
                   searchBody, pollHist, waits>>

ActivateCell(http) ==
    /\ CanRun("activate")
    /\ nActivate < MaxActivations
    /\ CASE result.kind = Undef ->
              /\ out' = Outcome("activate", "NameError")
              /\ UNCHANGED <<self_link, activation_link, activate_result,
                             srvStatus, reqKeys, nActivate>>
         [] result.kind = "error" \/ ~result.has ->
              /\ out' = Outcome("activate", "KeyError")
              /\ UNCHANGED <<self_link, activation_link, activate_result,
                             srvStatus, reqKeys, nActivate>>
         [] OTHER ->
              /\ self_link' = "SELF"
              /\ activation_link' = "ACTIVATE"
              /\ reqKeys' = reqKeys \cup {API_KEY}
              /\ nActivate' = nActivate + 1
              /\ IF http = "neterr"
                 THEN /\ out' = Outcome("activate", "ConnectionError")
                      /\ UNCHANGED <<activate_result, srvStatus>>
                 ELSE /\ activate_result' = "Response"
                      /\ srvStatus' = IF http = "ok" THEN ServerActivate(srvStatus)
                                      ELSE srvStatus
                      /\ out' = Outcome("activate", "none")
    /\ UNCHANGED <<envKey, cellChildren, pairRuns, kernelSetup, kernelSearch, result,
                   activation_status_result, download_link, srvHasAsset,
                   searchBody, pollHist, waits>>

(* "polling the status of the asset": one GET of the self link per run of  *)
(* the cell, then print the answer's "status".  The cell has no loop, no   *)
(* sleep and no bound: polling again is running the cell again, and waited *)
(* says whether the reader let an interval pass since the previous poll.   *)

PollCell(http, loc, waited) ==
    /\ CanRun("poll")
    /\ Len(pollHist) < MaxPolls
    /\ IF self_link = Undef
       THEN /\ out' = Outcome("poll", "NameError")
            /\ UNCHANGED <<activation_status_result, reqKeys, pollHist, waits>>
       ELSE /\ reqKeys' = reqKeys \cup {API_KEY}
            /\ waits' = IF pollHist # <<>> /\ waited THEN waits + 1 ELSE waits
            /\ CASE http = "neterr" ->
                      /\ pollHist' = Append(pollHist, "neterr")
                      /\ out' = Outcome("poll", "ConnectionError")
                      /\ UNCHANGED activation_status_result
                 [] http = "ok" ->
                      /\ pollHist' = Append(pollHist, srvStatus)
                      /\ activation_status_result' = StatusResponse(loc)
                      /\ out' = Outcome("poll", "none")
                 [] OTHER ->
                      /\ pollHist' = Append(pollHist, http)
                      /\ activation_status_result' = ErrorBody
                      /\ out' = Outcome("poll", "KeyError")
    /\ UNCHANGED <<envKey, cellChildren, pairRuns, kernelSetup, kernelSearch, result, self_link,
                   activation_link, activate_result, download_link, remote,
                   searchBody, nActivate>>

(* "Image can be downloaded ... from here": read "location" off the last   *)
(* status answer the kernel holds, whatever its status was.                *)

DownloadLinkCell_FallsBack ==
    /\ CanRun("download")
    /\ IF activation_status_result.kind = Undef
       THEN /\ out' = Outcome("download", "NameError")
            /\ UNCHANGED download_link
       ELSE /\ download_link' = IF activation_status_result.location = ""
                                THEN self_link
                                ELSE activation_status_result.location
            /\ out' = Outcome("download", "none")
    /\ UNCHANGED <<envKey, cellChildren, pairRuns, kernelSetup, kernelSearch, result, self_link,
                   activation_link, activate_result, activation_status_result,
                   remote, reqKeys, searchBody, pollLog>>

DownloadLinkCell ==
    /\ CanRun("download")
    /\ CASE activation_status_result.kind = Undef ->
              /\ out' = Outcome("download", "NameError")
              /\ UNCHANGED download_link
         [] activation_status_result.location = "" ->
              /\ out' = Outcome("download", "KeyError")
              /\ UNCHANGED download_link
         [] OTHER ->
              /\ download_link' = activation_status_result.location
              /\ out' = Outcome("download", "none")
    /\ UNCHANGED <<envKey, cellChildren, pairRuns, kernelSetup, kernelSearch, result, self_link,
                   activation_link, activate_result, activation_status_result,
                   remote, reqKeys, searchBody, pollLog>>

-----------------------------------------------------------------------------
(* The notebook and the service *)

Next ==
    \/ KeyCell
    \/ GeometryCell
    \/ FilterCell
    \/ \E http \in HttpOutcomes, found \in BOOLEAN : SearchCell(http, found)
    \/ IdsCell
    \/ \E http \in HttpOutcomes : AssetsCell(http)
    \/ StatusCell
    \/ \E http \in HttpOutcomes : ActivateCell(http)
    \/ \E http \in HttpOutcomes, loc \in Locations, waited \in BOOLEAN :
           PollCell(http, loc, waited)
    \/ DownloadLinkCell
    \/ \E to \in {"active", "failed"} : SrvProgress(to)

Spec == Init /\ [][Next]_vars

-----------------------------------------------------------------------------
(* The filter and search cells over every filter tree within the bounds:   *)
(* the "Create Filters" cell edited to combine other children.             *)

SeqsUpTo(S, n) == UNION {[1..k -> S] : k \in 0..n}

LeafFilters == {GeometryFilter("Polygon"), DateRangeFilter, RangeFilter}

NestedFilters == {AndFilter(fs) : fs \in SeqsUpTo(LeafFilters, MaxNested)}

FilterLists ==
    SeqsUpTo(LeafFilters \cup NestedFilters, MaxChildren) \cup {NotebookChildren}

NextFilter ==
    \/ KeyCell
    \/ GeometryCell
    \/ FilterCell
    \/ \E http \in HttpOutcomes, found \in BOOLEAN : SearchCell(http, found)

\* The asset takes no part in these cells: the item has it.
InitFilter == srvHasAsset = TRUE /\ \E children \in FilterLists : InitWith(children)

FilterSpec == InitFilter /\ [][NextFilter]_vars

\* Reading a request body back: the "type" of each object that is a direct
\* element of the list starting at token i, d counting the brackets open
\* inside that list.
RECURSIVE ScanTypes(_, _, _)
ScanTypes(body, i, d) ==
    IF i > Len(body) THEN <<>>
    ELSE CASE body[i] = "{" ->
                (IF d = 0 THEN <<body[i + 2]>> ELSE <<>>) \o ScanTypes(body, i + 1, d + 1)
           [] body[i] = "[" -> ScanTypes(body, i + 1, d + 1)
           [] body[i] \in {"}", "]"} ->
                IF d = 0 THEN <<>> ELSE ScanTypes(body, i + 1, d - 1)
           [] OTHER -> ScanTypes(body, i + 1, d)

\* The tags of the children of the body's "filter", a conjunction.
BodyChildTypes(body) ==
    LET k == CHOOSE i \in 1..Len(body) :
                 body[i] = "filter" /\ \A j \in 1..(i - 1) : body[j] # "filter"
    IN  ScanTypes(body, k + 6, 0)

TypesOf(fs) == [i \in 1..Len(fs) |-> fs[i].type]

-----------------------------------------------------------------------------
(* Vocabulary of the claims.  waitUntilActive(asset, interval, MaxAttempts) *)
(* is read on the notebook as the runs of the poll cell followed by the    *)
(* download_link cell; its handle is download_link.                        *)

Statuses == {"inactive", "activating", "active", "failed"}
StillWaiting == {"inactive", "activating"}
PollErrors == {"unauthorized", "notfound", "neterr"}

IsStatus(obs) == obs \in Statuses

\* The error the contract names for a poll that ended as obs.
ContractError(obs) ==
    CASE obs = "unauthorized" -> "AuthError"
      [] obs = "notfound" -> "NotFoundError"
      [] obs = "neterr" -> "TransientError"
      [] OTHER -> "none"

\* requests' ConnectionError is the network-level (transient) failure.
ErrorKind(exc) == IF exc = "ConnectionError" THEN "TransientError" ELSE exc

\* Poll i reported active and every poll before it reported "not yet".
ActiveAt(i) ==
    /\ pollHist[i] = "active"
    /\ \A j \in 1..(i - 1) : pollHist[j] \in StillWaiting

ActiveWithinAttempts ==
    \E i \in 1..MaxAttempts : i <= Len(pollHist) /\ ActiveAt(i)

-----------------------------------------------------------------------------
\* C1: waitUntilActive returns a retrieval handle if and only if a poll among
\* the first MaxAttempts reports active with no failed status or error before
\* it; when all MaxAttempts polls report activating it ends with TimeoutError
\* and no handle.
C1_HandleIffActiveWithinAttempts ==
    /\ download_link # Undef => ActiveWithinAttempts
    /\ (out.cell = "download" /\ ActiveWithinAttempts) => download_link # Undef
    /\ ( /\ Len(pollHist) = MaxAttempts
         /\ \A i \in 1..MaxAttempts : pollHist[i] = "activating"
         /\ out.cell = "poll" )
       => out.exc = "TimeoutError"

\* C2: a poll that observes status=failed ends the wait with
\* ActivationFailedError at that poll: it is the last poll issued and no
\* handle is returned.
C2_FailedEndsPolling ==
    \A i \in DOMAIN pollHist :
        pollHist[i] = "failed" =>
            /\ i = Len(pollHist)
            /\ out.cell = "poll" => out.exc = "ActivationFailedError"
            /\ download_link = Undef

\* C3: when the assets endpoint answered an empty mapping, asking for the
\* status or the links of the named asset ends in NotFoundError, and no
\* activation or poll request is issued and no download link obtained.
C3_EmptyAssetsNotFound ==
    (result.kind = "assets" /\ ~result.has) =>
        /\ out.cell \in {"status", "activate"} => out.exc = "NotFoundError"
        /\ nActivate = 0
        /\ pollHist = <<>>
        /\ download_link = Undef

\* C4: only a poll that reported "not yet active" is followed by another
\* poll; a poll that failed with NotFoundError, AuthError or TransientError
\* ends the wait with that same error, with no further poll and no handle.
C4_ErrorsEndPolling ==
    /\ \A i \in 1..(Len(pollHist) - 1) : pollHist[i] \in StillWaiting
    /\ \A i \in DOMAIN pollHist :
           pollHist[i] \in PollErrors =>
               /\ out.cell = "poll" => ErrorKind(out.exc) = ContractError(pollHist[i])
               /\ download_link = Undef

\* C5: an activation request that reaches the service while the asset is
\* activating or active raises nothing in the notebook and leaves the asset's
\* status as it was, so activating twice has the effect of activating once.
C5_ActivateIdempotent ==
    [][ ( /\ out'.cell = "activate"
          /\ nActivate' = nActivate + 1
          /\ out'.exc # "ConnectionError"
          /\ srvStatus \in {"activating", "active"} )
        => ( /\ out'.exc = "none"
             /\ activate_result' # Undef
             /\ srvStatus' = srvStatus ) ]_vars

\* C5's case: activation was requested a second time after a poll had already
\* reported the asset active, and the cell ended without an exception.
C5_Witness ==
    /\ out = Outcome("activate", "none")
    /\ nActivate = 2
    /\ \E i \in DOMAIN pollHist : pollHist[i] = "active"
    /\ srvStatus = "active"

\* C6: when the first three polls report activating, activating, active,
\* exactly three polls are issued with exactly two interval waits between
\* them, and the handle's url is the location of the answer that reported
\* active.
C6_ThreePollScenario ==
    ( /\ Len(pollHist) >= 3
      /\ SubSeq(pollHist, 1, 3) = <<"activating", "activating", "active">> )
    => /\ Len(pollHist) = 3
       /\ waits = 2
       /\ out.cell = "download" =>
              /\ out.exc = "none"
              /\ download_link = activation_status_result.location

\* C7: credentials are never defaulted: every request carries the credential
\* the caller supplied in PL_API_KEY, and with none supplied no request is
\* issued.
C7_CredentialsNeverDefaulted ==
    \A k \in reqKeys : k = envKey /\ envKey # "" /\ k # DefaultKey

\* C8: the conjunction built from the given children, and the body of the
\* search request that carries it, list the children with the same length,
\* order and type tags as given.
C8_ConjunctionKeepsChildren ==
    (out.cell = "search" /\ out.exc # "NameError") =>
        /\ combined_filter.type = "AndFilter"
        /\ combined_filter.config = cellChildren
        /\ search_request.filter = combined_filter
        /\ BodyChildTypes(searchBody) = TypesOf(cellChildren)

\* C8's case: a search was sent whose conjunction has a nested conjunction
\* first and a numeric-range predicate second.
C8_Witness ==
    /\ out = Outcome("search", "none")
    /\ Len(cellChildren) = 2
    /\ cellChildren[1].type = "AndFilter"
    /\ cellChildren[2].type = "RangeFilter"
    /\ BodyChildTypes(searchBody) = <<"AndFilter", "RangeFilter">>

\* C9: polling is bounded: whatever the service answers, at most MaxAttempts
\* polls are issued.
C9_PollsBounded == Len(pollHist) <= MaxAttempts

\* C10: the download link is taken only from a status answer whose status is
\* active, the last status a poll reported is then active, and no status
\* poll is issued before activation has been requested.
C10_LinkOnlyFromActive ==
    /\ download_link # Undef =>
           /\ activation_status_result.kind = "ok"
           /\ activation_status_result.status = "active"
           /\ download_link = activation_status_result.location
           /\ LET seen == SelectSeq(pollHist, IsStatus)
              IN  seen # <<>> /\ seen[Len(seen)] = "active"
    /\ pollHist # <<>> => nActivate >= 1

\* C10's case: a download link was obtained after a poll that had reported
\* activating and a later one that reported active.
C10_Witness ==
    /\ download_link \in Locations
    /\ Len(pollHist) >= 2
    /\ pollHist[1] = "activating"
    /\ pollHist[Len(pollHist)] = "active"

-----------------------------------------------------------------------------
(* Two activate-and-wait runs in one kernel, one per asset.  A run on      *)
(* asset r is the activation cell with r as the asset name, then the poll  *)
(* cell as often as wanted, then the download_link cell.  The poll and     *)
(* download_link cells name no asset: they read the kernel's self_link and *)
(* activation_status_result, whichever run assigned them last.  A run that *)
(* is abandoned simply takes no further step.                              *)

\* The links and the location of an asset, named after it.
SelfLink(a) == a
ActivateLink(a) == a
LocationOf(a) == IF a = "ortho_analytic_4b" THEN "loc1" ELSE "loc2"

\* GET of an asset's self link.
PairStatusResponse(a) ==
    [kind |-> "ok", status |-> srvPair[a],
     location |-> IF srvPair[a] = "active" THEN LocationOf(a) ELSE ""]

\* The service finishes the activation of one asset; no client takes part.
SrvPairProgress(a, to) ==
    /\ srvPair[a] = "activating"
    /\ srvPair' = [srvPair EXCEPT ![a] = to]
    /\ UNCHANGED <<envKey, cellChildren, kernelSetup, kernelSearch, kernelAsset,
                   out, remote, reqKeys, searchBody, pollLog, runPc, runHist,
                   runResult>>

\* Run r starts from an assets listing that has its asset.
RunActivate(r, http) ==
    /\ runPc[r] = "start"
    /\ result.kind = "assets" /\ result.has
    /\ self_link' = SelfLink(r)
    /\ activation_link' = ActivateLink(r)
    /\ reqKeys' = reqKeys \cup {API_KEY}
    /\ IF http = "neterr"
       THEN /\ out' = Outcome("activate", "ConnectionError")
            /\ UNCHANGED <<activate_result, srvPair>>
       ELSE /\ activate_result' = "Response"
            /\ srvPair' = [srvPair EXCEPT
                              ![r] = IF http = "ok" THEN ServerActivate(@) ELSE @]
            /\ out' = Outcome("activate", "none")
    /\ runPc' = [runPc EXCEPT ![r] = "polling"]
    /\ UNCHANGED <<envKey, cellChildren, kernelSetup, kernelSearch, result,
                   activation_status_result, download_link, remote, searchBody,
                   pollLog, runHist, runResult>>

\* Run r polls: the cell GETs the kernel's self_link.
RunPoll(r, http) ==
    /\ runPc[r] = "polling"
    /\ Len(runHist[r]) < MaxPolls
    /\ runHist' = [runHist EXCEPT ![r] = Append(@, self_link)]
    /\ reqKeys' = reqKeys \cup {API_KEY}
    /\ CASE http = "neterr" ->
              /\ out' = Outcome("poll", "ConnectionError")
              /\ UNCHANGED activation_status_result
         [] http = "ok" ->
              /\ activation_status_result' = PairStatusResponse(self_link)
              /\ out' = Outcome("poll", "none")
         [] OTHER ->
              /\ activation_status_result' = ErrorBody
              /\ out' = Outcome("poll", "KeyError")
    /\ UNCHANGED <<envKey, cellChildren, kernelSetup, kernelSearch, result,
                   self_link, activation_link, activate_result, download_link,
                   remote, searchBody, pollLog, srvPair, runPc, runResult>>

\* Run r ends: the cell reads "location" off the kernel's last status answer.
RunDownload(r) ==
    /\ runPc[r] = "polling"
    /\ CASE activation_status_result.kind = Undef ->
              /\ out' = Outcome("download", "NameError")
              /\ UNCHANGED download_link
         [] activation_status_result.location = "" ->
              /\ out' = Outcome("download", "KeyError")
              /\ UNCHANGED download_link
         [] OTHER ->
              /\ download_link' = activation_status_result.location
              /\ out' = Outcome("download", "none")
    /\ runResult' = [runResult EXCEPT
                        ![r] = IF out'.exc = "none" THEN download_link' ELSE out'.exc]
    /\ runPc' = [runPc EXCEPT ![r] = "done"]
    /\ UNCHANGED <<envKey, cellChildren, kernelSetup, kernelSearch, result,
                   self_link, activation_link, activate_result,
                   activation_status_result, remote, reqKeys, searchBody,
                   pollLog, srvPair, runHist>>

NextPair ==
    \/ KeyCell
    \/ GeometryCell
    \/ FilterCell
    \/ \E http \in HttpOutcomes, found \in BOOLEAN : SearchCell(http, found)
    \/ IdsCell
    \/ \E http \in HttpOutcomes : AssetsCell(http)
    \/ \E r \in Assets, http \in HttpOutcomes : RunActivate(r, http)
    \/ \E r \in Assets, http \in HttpOutcomes : RunPoll(r, http)
    \/ \E r \in Assets : RunDownload(r)
    \/ \E a \in Assets, to \in {"active", "failed"} : SrvPairProgress(a, to)

\* The item has the assets the runs are about.
InitPair == srvHasAsset = TRUE /\ Init

PairSpec == InitPair /\ [][NextPair]_vars

====
